---- MODULE Spec2Model ----
(***************************************************************************)
(* The virtual file system facade of thor-os (kernel/src/vfs/vfs.cpp):     *)
(* the mount registry, the longest-prefix dispatch, the facade operations  *)
(* and the two listing serializers.  Strings are sequences of character    *)
(* codes, paths are sequences of segments, and a caller buffer is the map  *)
(* from the offsets a call stored to the bytes it stored there.            *)
(***************************************************************************)
EXTENDS Integers, Sequences, FiniteSets, TLC

VARIABLES mount_point_list, handles, last

vars == <<mount_point_list, handles, last>>

(***************************************************************************)
(* Bounds of the model.                                                    *)
(***************************************************************************)
MaxInits == 2
MaxMounts == 1
MaxHandles == 1
MaxFiles == 2
MaxCount == 1

(***************************************************************************)
(* Characters and strings.                                                 *)
(***************************************************************************)
SLASH == 47
NUL == 0

Str_empty == << >>
Str_root == <<47>>
Str_sys == <<47, 115, 121, 115, 47>>
Str_dev == <<47, 100, 101, 118, 47>>
Str_proc == <<47, 112, 114, 111, 99, 47>>
Str_hda1 == <<47, 100, 101, 118, 47, 104, 100, 97, 49>>
Str_hda2 == <<47, 100, 101, 118, 47, 104, 100, 97, 50>>
Str_none == <<110, 111, 110, 101>>
Str_sysb == <<47, 115, 121, 115, 47, 98, 47>>
Str_a == <<47, 97>>
Str_b == <<98>>

Min(x, y) == IF x < y THEN x ELSE y

\* std::split(s, sep): the non-empty runs of s between separators.
RECURSIVE split_from(_, _, _, _, _)
split_from(s, sep, i, current, parts) ==
    IF i > Len(s)
    THEN IF current # << >> THEN Append(parts, current) ELSE parts
    ELSE IF s[i] = sep
         THEN IF current # << >>
              THEN split_from(s, sep, i + 1, << >>, Append(parts, current))
              ELSE split_from(s, sep, i + 1, current, parts)
         ELSE split_from(s, sep, i + 1, Append(current, s[i]), parts)

split(s, sep) == split_from(s, sep, 1, << >>, << >>)

(***************************************************************************)
(* The path value: the sequence of its segments.                           *)
(***************************************************************************)
path_of(str) == split(str, SLASH)

path_join(base, str) == base \o split(str, SLASH)

is_root(p) == p = << >>

sub_path(p, k) == SubSeq(p, k + 1, Len(p))

\* scheduler::get_working_directory() of the calling process.
WorkingDirectory == <<<<115, 121, 115>>>>

get_path(file_path) ==
    IF file_path = << >> \/ file_path[1] # SLASH
    THEN path_join(WorkingDirectory, file_path)
    ELSE path_of(file_path)

(***************************************************************************)
(* Error codes and flags.                                                  *)
(***************************************************************************)
ERROR_NOT_EXISTS == 1
ERROR_INVALID_FILE_PATH == 5
ERROR_INVALID_FILE_DESCRIPTOR == 7
ERROR_FAILED == 8
ERROR_EXISTS == 9
ERROR_BUFFER_SMALL == 10
ERROR_INVALID_FILE_SYSTEM == 11
ERROR_ALREADY_MOUNTED == 19
OPEN_CREATE == 1

(***************************************************************************)
(* Partition types and the mount registry.                                 *)
(***************************************************************************)
partition_type == {"FAT32", "SYSFS", "DEVFS", "PROCFS", "UNKNOWN"}

partition_type_to_string(type) ==
    CASE type = "FAT32" -> <<70, 65, 84, 51, 50>>
      [] type = "SYSFS" -> <<115, 121, 115, 102, 115>>
      [] type = "DEVFS" -> <<100, 101, 118, 102, 115>>
      [] type = "PROCFS" -> <<112, 114, 111, 99, 102, 115>>
      [] type = "UNKNOWN" -> <<85, 110, 107, 110, 111, 119, 110>>
      [] OTHER -> <<73, 110, 118, 97, 108, 105, 100, 32, 84, 121, 112, 101>>

\* A backend instance: how many times init() ran on it, and the backend-local
\* paths that exist in it.
nullptr == [null |-> TRUE, inits |-> 0, files |-> {}]

DiskFiles(type) == IF type = "FAT32" THEN {<<<<97>>>>} ELSE {}

get_new_fs(type, mount_point, device) ==
    IF type \in {"FAT32", "SYSFS", "DEVFS", "PROCFS"}
    THEN [null |-> FALSE, inits |-> 0, files |-> DiskFiles(type)]
    ELSE nullptr

mounted_fs(type, dev, mp, fs) ==
    [fs_type |-> type, device |-> dev, mount_point |-> mp, file_system |-> fs,
     mp_vec |-> split(mp, SLASH)]

fs_init(mp) == [mp EXCEPT !.file_system.inits = @ + 1]

\* get_fs: the index (from 1) of the mount the lookup returns.
RECURSIVE get_fs_scan(_, _, _, _, _)
get_fs_scan(list, base_path, i, best, best_match) ==
    IF i > Len(list)
    THEN best_match
    ELSE LET mp == list[i]
             match == \A j \in 1..Min(Len(mp.mp_vec), Len(base_path)) :
                          mp.mp_vec[j] = base_path[j]
         IN IF match /\ Len(mp.mp_vec) > best
            THEN get_fs_scan(list, base_path, i + 1, Len(mp.mp_vec), i)
            ELSE get_fs_scan(list, base_path, i + 1, best, best_match)

get_fs_in(list, base_path) ==
    IF is_root(base_path) /\ \E i \in 1..Len(list) : list[i].mp_vec = << >>
    THEN CHOOSE i \in 1..Len(list) :
             /\ list[i].mp_vec = << >>
             /\ \A k \in 1..(i - 1) : list[k].mp_vec # << >>
    ELSE get_fs_scan(list, base_path, 1, 0, 1)

get_fs(base_path) == get_fs_in(mount_point_list, base_path)

get_fs_path(base_path, fs) == sub_path(base_path, Len(fs.mp_vec))

(***************************************************************************)
(* The scheduler's descriptor table: a map from live descriptors to the    *)
(* absolute path each refers to.                                           *)
(***************************************************************************)
has_handle(fd) == fd \in DOMAIN handles

get_handle(fd) == handles[fd]

new_handle(table) == CHOOSE n \in 0..Cardinality(DOMAIN table) : n \notin DOMAIN table

register_new_handle(table, p) == (new_handle(table) :> p) @@ table

release_handle(table, fd) == [d \in (DOMAIN table) \ {fd} |-> table[d]]

(***************************************************************************)
(* The backend contract: the results an operation of a backend can give.   *)
(***************************************************************************)
get_file_results(fs, p) ==
    IF p \in fs.files THEN {0, ERROR_FAILED} ELSE {ERROR_NOT_EXISTS, ERROR_FAILED}

touch_results == {0, ERROR_FAILED}

mkdir_results(fs, p) ==
    IF p = << >> \/ p \in fs.files THEN {ERROR_EXISTS} ELSE {0, ERROR_FAILED}

rm_results(fs, p) ==
    IF p \in fs.files THEN {0, ERROR_FAILED} ELSE {ERROR_NOT_EXISTS}

io_results(fs, p) ==
    IF p \in fs.files THEN {0, ERROR_FAILED} ELSE {ERROR_NOT_EXISTS}

statfs_results == {0, ERROR_FAILED}

ls_results == {0, ERROR_FAILED}

\* The file metadata a successful get_file can hand back.
FileMetas ==
    {[size |-> 0, directory |-> FALSE, system |-> FALSE, hidden |-> FALSE],
     [size |-> 2, directory |-> TRUE, system |-> TRUE, hidden |-> TRUE]}

Call(i, op, p, r) == [fs |-> i, op |-> op, path |-> p, result |-> r]

(***************************************************************************)
(* The record of the last facade call: its arguments, what it returned,    *)
(* the backend operations it invoked and what it stored for the caller.    *)
(***************************************************************************)
NoTable == << >>

NoResult ==
    [op |-> "none", path |-> << >>, fd |-> -1, flags |-> 0, size |-> 0,
     ret |-> 0, calls |-> << >>, base_path |-> << >>, table0 |-> NoTable,
     after_open |-> FALSE, buffer |-> << >>, files |-> << >>, info |-> << >>]

BootCount(list) == Cardinality({i \in 1..Len(list) : list[i].device = Str_hda1})

ExtraMounts(list) == Len(list) - 4 * BootCount(list)

Init ==
    /\ mount_point_list = << >>
    /\ handles = NoTable
    /\ last = NoResult

(***************************************************************************)
(* vfs::mount, raw form, and vfs::init.                                    *)
(***************************************************************************)
mount_raw(list, type, mount_point, device) ==
    LET fs == get_new_fs(type, mount_point, device)
    IN IF fs = nullptr
       THEN [ret |-> -ERROR_INVALID_FILE_SYSTEM, list |-> list]
       ELSE [ret |-> 0, list |-> Append(list, mounted_fs(type, device, mount_point, fs))]

mount_root(list) == mount_raw(list, "FAT32", Str_root, Str_hda1).list

mount_sys(list) == mount_raw(list, "SYSFS", Str_sys, Str_none).list

mount_dev(list) == mount_raw(list, "DEVFS", Str_dev, Str_none).list

mount_proc(list) == mount_raw(list, "PROCFS", Str_proc, Str_none).list

init_all(list) == [i \in 1..Len(list) |-> fs_init(list[i])]

vfs_init ==
    /\ BootCount(mount_point_list) < MaxInits
    /\ mount_point_list' =
           init_all(mount_proc(mount_dev(mount_sys(mount_root(mount_point_list)))))
    /\ last' = [NoResult EXCEPT !.op = "init"]
    /\ UNCHANGED handles

MountTypes == {"FAT32", "UNKNOWN"}

RawMountPoints == {Str_sys, Str_sysb}

vfs_mount(type, mount_point, device) ==
    /\ ExtraMounts(mount_point_list) < MaxMounts
    /\ LET r == mount_raw(mount_point_list, type, mount_point, device)
       IN /\ mount_point_list' = r.list
          /\ last' = [NoResult EXCEPT !.op = "mount", !.path = mount_point,
                                      !.ret = r.ret]
    /\ UNCHANGED handles

(***************************************************************************)
(* vfs::mount, file-descriptor form.                                       *)
(***************************************************************************)
RECURSIVE join_from(_, _, _)
join_from(p, i, acc) ==
    IF i > Len(p) THEN acc ELSE join_from(p, i + 1, (acc \o p[i]) \o <<SLASH>>)

join(p) == join_from(p, 1, <<SLASH>>)

already_mounted(list, mp) == \E i \in 1..Len(list) : list[i].mount_point = mp

FdArgs == 0..MaxHandles

\* The descriptor pairs a caller passes: one descriptor for both, or a second
\* one that is not open.
FdPairs == {<<fd, fd>> : fd \in FdArgs} \cup {<<fd, MaxHandles>> : fd \in FdArgs}

vfs_mount_fd(type, mp_fd, dev_fd) ==
    /\ ExtraMounts(mount_point_list) < MaxMounts
    /\ UNCHANGED handles
    /\ IF ~has_handle(mp_fd) \/ ~has_handle(dev_fd)
       THEN /\ last' = [NoResult EXCEPT !.op = "mount_fd", !.fd = mp_fd,
                                        !.ret = -ERROR_INVALID_FILE_DESCRIPTOR]
            /\ UNCHANGED mount_point_list
       ELSE LET mp == join(get_handle(mp_fd))
                device == join(get_handle(dev_fd))
                fs == get_new_fs(type, mp, device)
            IN IF already_mounted(mount_point_list, mp)
               THEN /\ last' = [NoResult EXCEPT !.op = "mount_fd", !.fd = mp_fd,
                                                !.path = mp,
                                                !.ret = -ERROR_ALREADY_MOUNTED]
                    /\ UNCHANGED mount_point_list
               ELSE IF fs = nullptr
               THEN /\ last' = [NoResult EXCEPT !.op = "mount_fd", !.fd = mp_fd,
                                                !.path = mp,
                                                !.ret = -ERROR_INVALID_FILE_SYSTEM]
                    /\ UNCHANGED mount_point_list
               ELSE /\ mount_point_list' =
                           Append(mount_point_list,
                                  fs_init(mounted_fs(type, device, mp, fs)))
                    /\ last' = [NoResult EXCEPT !.op = "mount_fd", !.fd = mp_fd,
                                                !.path = mp, !.ret = 0]

(***************************************************************************)
(* Facade operations on a caller-provided path string.                     *)
(***************************************************************************)
PathArgs == {Str_empty, Str_root, Str_sys, Str_a, Str_b}

OpenFlags == {0, OPEN_CREATE}

has_flag(flags, flag) == (flags \div flag) % 2 = 1

set_files(list, i, files) == [list EXCEPT ![i].file_system.files = files]

statfs_return(result) == result

vfs_statfs(mount_point) ==
    /\ mount_point_list # << >>
    /\ UNCHANGED <<mount_point_list, handles>>
    /\ IF Len(mount_point) = 0
       THEN last' = [NoResult EXCEPT !.op = "statfs", !.path = mount_point,
                                     !.ret = -ERROR_INVALID_FILE_PATH]
       ELSE LET base_path == get_path(mount_point)
                i == get_fs(base_path)
            IN \E r \in statfs_results :
                   last' = [NoResult EXCEPT !.op = "statfs", !.path = mount_point,
                                !.base_path = base_path,
                                !.calls = <<Call(i, "statfs", << >>, r)>>,
                                !.ret = statfs_return(r)]

\* A variant of open that registers a handle whatever the backend answered.
open_registers_always(sub_result) == TRUE

open_registers(sub_result) == ~(sub_result > 0)

open_finish(file_path, flags, base_path, calls, sub_result, list) ==
    /\ mount_point_list' = list
    /\ IF open_registers(sub_result)
       THEN /\ handles' = register_new_handle(handles, base_path)
            /\ last' = [NoResult EXCEPT !.op = "open", !.path = file_path,
                            !.flags = flags, !.base_path = base_path,
                            !.calls = calls, !.table0 = handles,
                            !.ret = new_handle(handles)]
       ELSE /\ handles' = handles
            /\ last' = [NoResult EXCEPT !.op = "open", !.path = file_path,
                            !.flags = flags, !.base_path = base_path,
                            !.calls = calls, !.table0 = handles,
                            !.ret = -sub_result]

vfs_open(file_path, flags) ==
    /\ mount_point_list # << >>
    /\ Cardinality(DOMAIN handles) < MaxHandles
    /\ IF file_path = << >>
       THEN /\ last' = [NoResult EXCEPT !.op = "open", !.path = file_path,
                            !.flags = flags, !.table0 = handles,
                            !.ret = -ERROR_INVALID_FILE_PATH]
            /\ UNCHANGED <<mount_point_list, handles>>
       ELSE LET base_path == get_path(file_path)
                i == get_fs(base_path)
                fs == mount_point_list[i]
                fs_path == get_fs_path(base_path, fs)
            IN IF is_root(fs_path)
               THEN open_finish(file_path, flags, base_path, << >>, 0,
                                mount_point_list)
               ELSE \E r1 \in get_file_results(fs.file_system, fs_path) :
                       IF has_flag(flags, OPEN_CREATE) /\ r1 = ERROR_NOT_EXISTS
                       THEN \E r2 \in touch_results :
                               open_finish(file_path, flags, base_path,
                                   <<Call(i, "get_file", fs_path, r1),
                                     Call(i, "touch", fs_path, r2)>>,
                                   r2,
                                   IF r2 = 0
                                   THEN set_files(mount_point_list, i,
                                            fs.file_system.files \cup {fs_path})
                                   ELSE mount_point_list)
                       ELSE open_finish(file_path, flags, base_path,
                                <<Call(i, "get_file", fs_path, r1)>>, r1,
                                mount_point_list)

\* A variant of close that leaves the descriptor registered.
close_table_keeps(table, fd) == table

close_table(table, fd) ==
    IF fd \in DOMAIN table THEN release_handle(table, fd) ELSE table

vfs_close(fd) ==
    /\ handles' = close_table(handles, fd)
    /\ last' = [NoResult EXCEPT !.op = "close", !.fd = fd,
                    !.after_open = (last.op = "open" /\ last.ret = fd),
                    !.flags = IF last.op = "open" /\ last.ret = fd
                              THEN last.flags ELSE 0,
                    !.table0 = IF last.op = "open" /\ last.ret = fd
                               THEN last.table0 ELSE NoTable]
    /\ UNCHANGED mount_point_list

mkdir_return(result) == result

vfs_mkdir(file_path) ==
    /\ mount_point_list # << >>
    /\ UNCHANGED handles
    /\ IF file_path = << >>
       THEN /\ last' = [NoResult EXCEPT !.op = "mkdir", !.path = file_path,
                            !.ret = -ERROR_INVALID_FILE_PATH]
            /\ UNCHANGED mount_point_list
       ELSE LET base_path == get_path(file_path)
                i == get_fs(base_path)
                fs == mount_point_list[i]
                fs_path == get_fs_path(base_path, fs)
            IN \E r \in mkdir_results(fs.file_system, fs_path) :
                  /\ mount_point_list' =
                         IF r = 0
                         THEN set_files(mount_point_list, i,
                                  fs.file_system.files \cup {fs_path})
                         ELSE mount_point_list
                  /\ last' = [NoResult EXCEPT !.op = "mkdir", !.path = file_path,
                                  !.base_path = base_path,
                                  !.calls = <<Call(i, "mkdir", fs_path, r)>>,
                                  !.ret = mkdir_return(r)]

rm_return(result) == result

vfs_rm(file_path) ==
    /\ mount_point_list # << >>
    /\ UNCHANGED handles
    /\ IF file_path = << >>
       THEN /\ last' = [NoResult EXCEPT !.op = "rm", !.path = file_path,
                            !.ret = -ERROR_INVALID_FILE_PATH]
            /\ UNCHANGED mount_point_list
       ELSE LET base_path == get_path(file_path)
                i == get_fs(base_path)
                fs == mount_point_list[i]
                fs_path == get_fs_path(base_path, fs)
            IN \E r \in rm_results(fs.file_system, fs_path) :
                  /\ mount_point_list' =
                         IF r = 0
                         THEN set_files(mount_point_list, i,
                                  fs.file_system.files \ {fs_path})
                         ELSE mount_point_list
                  /\ last' = [NoResult EXCEPT !.op = "rm", !.path = file_path,
                                  !.base_path = base_path,
                                  !.calls = <<Call(i, "rm", fs_path, r)>>,
                                  !.ret = rm_return(r)]

\* What a backend read, write or clear of at most count bytes can give: the
\* result and the byte count it hands back.
io_outcomes(fs, p, count) ==
    {[result |-> r, n |-> n] : r \in io_results(fs, p) \ {0}, n \in {0}}
        \cup (IF 0 \in io_results(fs, p)
              THEN {[result |-> 0, n |-> n] : n \in 0..count}
              ELSE {})

io_return(result, n) == IF result > 0 THEN -result ELSE n

vfs_direct_read(file, count) ==
    /\ mount_point_list # << >>
    /\ UNCHANGED <<mount_point_list, handles>>
    /\ LET base_path == get_path(file)
           i == get_fs(base_path)
           fs == mount_point_list[i]
           fs_path == get_fs_path(base_path, fs)
       IN \E o \in io_outcomes(fs.file_system, fs_path, count) :
              last' = [NoResult EXCEPT !.op = "direct_read", !.path = file,
                           !.base_path = base_path,
                           !.calls = <<Call(i, "read", fs_path, o.result)>>,
                           !.ret = io_return(o.result, o.n)]

vfs_direct_write(file, count) ==
    /\ mount_point_list # << >>
    /\ UNCHANGED <<mount_point_list, handles>>
    /\ LET base_path == get_path(file)
           i == get_fs(base_path)
           fs == mount_point_list[i]
           fs_path == get_fs_path(base_path, fs)
       IN \E o \in io_outcomes(fs.file_system, fs_path, count) :
              last' = [NoResult EXCEPT !.op = "direct_write", !.path = file,
                           !.base_path = base_path,
                           !.calls = <<Call(i, "write", fs_path, o.result)>>,
                           !.ret = io_return(o.result, o.n)]

\* direct_read into a growable string: get_file for the size, then read.
vfs_direct_read_string(file_path) ==
    /\ mount_point_list # << >>
    /\ UNCHANGED <<mount_point_list, handles>>
    /\ LET base_path == get_path(file_path)
           i == get_fs(base_path)
           fs == mount_point_list[i]
           fs_path == get_fs_path(base_path, fs)
       IN \E r1 \in get_file_results(fs.file_system, fs_path) :
             IF r1 > 0
             THEN last' = [NoResult EXCEPT !.op = "direct_read_string",
                               !.path = file_path, !.base_path = base_path,
                               !.calls = <<Call(i, "get_file", fs_path, r1)>>,
                               !.ret = -r1]
             ELSE \E f \in FileMetas :
                  \E o \in io_outcomes(fs.file_system, fs_path, f.size) :
                     last' = [NoResult EXCEPT !.op = "direct_read_string",
                                  !.path = file_path, !.base_path = base_path,
                                  !.calls = <<Call(i, "get_file", fs_path, r1),
                                              Call(i, "read", fs_path, o.result)>>,
                                  !.info = IF o.result > 0 THEN << >>
                                           ELSE [length |-> o.n, nul_at |-> o.n],
                                  !.ret = io_return(o.result, o.n)]

(***************************************************************************)
(* Facade operations on a descriptor.                                      *)
(***************************************************************************)
STAT_FLAG_DIRECTORY == 1
STAT_FLAG_SYSTEM == 2
STAT_FLAG_HIDDEN == 4
ROOT_STAT_SIZE == 4096

stat_flags(f) ==
    (IF f.directory THEN STAT_FLAG_DIRECTORY ELSE 0)
        + (IF f.system THEN STAT_FLAG_SYSTEM ELSE 0)
        + (IF f.hidden THEN STAT_FLAG_HIDDEN ELSE 0)

bad_fd(op, fd) ==
    /\ last' = [NoResult EXCEPT !.op = op, !.fd = fd,
                    !.ret = -ERROR_INVALID_FILE_DESCRIPTOR]
    /\ UNCHANGED <<mount_point_list, handles>>

vfs_stat(fd) ==
    /\ mount_point_list # << >>
    /\ IF ~has_handle(fd)
       THEN bad_fd("stat", fd)
       ELSE /\ UNCHANGED <<mount_point_list, handles>>
            /\ LET base_path == get_handle(fd)
                   i == get_fs(base_path)
                   fs == mount_point_list[i]
                   fs_path == get_fs_path(base_path, fs)
               IN IF fs_path = << >>
                  THEN last' = [NoResult EXCEPT !.op = "stat", !.fd = fd,
                                    !.base_path = base_path,
                                    !.info = [size |-> ROOT_STAT_SIZE,
                                              flags |-> STAT_FLAG_DIRECTORY],
                                    !.ret = 0]
                  ELSE \E r \in get_file_results(fs.file_system, fs_path) :
                          IF r > 0
                          THEN last' = [NoResult EXCEPT !.op = "stat", !.fd = fd,
                                            !.base_path = base_path,
                                            !.calls = <<Call(i, "get_file", fs_path, r)>>,
                                            !.ret = -r]
                          ELSE \E f \in FileMetas :
                                  last' = [NoResult EXCEPT !.op = "stat", !.fd = fd,
                                               !.base_path = base_path,
                                               !.calls = <<Call(i, "get_file", fs_path, r)>>,
                                               !.info = [size |-> f.size,
                                                         flags |-> stat_flags(f)],
                                               !.ret = 0]

\* read, write and clear on a descriptor share one shape.
fd_io(op, backend_op, fd, count) ==
    /\ mount_point_list # << >>
    /\ IF ~has_handle(fd)
       THEN bad_fd(op, fd)
       ELSE /\ UNCHANGED <<mount_point_list, handles>>
            /\ LET base_path == get_handle(fd)
               IN IF base_path = << >>
                  THEN last' = [NoResult EXCEPT !.op = op, !.fd = fd,
                                    !.ret = -ERROR_INVALID_FILE_PATH]
                  ELSE LET i == get_fs(base_path)
                           fs == mount_point_list[i]
                           fs_path == get_fs_path(base_path, fs)
                       IN \E o \in io_outcomes(fs.file_system, fs_path, count) :
                              last' = [NoResult EXCEPT !.op = op, !.fd = fd,
                                           !.base_path = base_path,
                                           !.calls = <<Call(i, backend_op, fs_path,
                                                            o.result)>>,
                                           !.ret = io_return(o.result, o.n)]

vfs_read(fd, count) == fd_io("read", "read", fd, count)

vfs_write(fd, count) == fd_io("write", "write", fd, count)

vfs_clear(fd, count) == fd_io("clear", "clear", fd, count)

truncate_return(result) == IF result > 0 THEN -result ELSE 0

vfs_truncate(fd) ==
    /\ mount_point_list # << >>
    /\ IF ~has_handle(fd)
       THEN bad_fd("truncate", fd)
       ELSE /\ UNCHANGED <<mount_point_list, handles>>
            /\ LET base_path == get_handle(fd)
               IN IF base_path = << >>
                  THEN last' = [NoResult EXCEPT !.op = "truncate", !.fd = fd,
                                    !.ret = -ERROR_INVALID_FILE_PATH]
                  ELSE LET i == get_fs(base_path)
                           fs == mount_point_list[i]
                           fs_path == get_fs_path(base_path, fs)
                       IN \E r \in io_results(fs.file_system, fs_path) :
                              last' = [NoResult EXCEPT !.op = "truncate", !.fd = fd,
                                           !.base_path = base_path,
                                           !.calls = <<Call(i, "truncate", fs_path, r)>>,
                                           !.ret = truncate_return(r)]

(***************************************************************************)
(* Caller buffers and the two listing serializers.                         *)
(***************************************************************************)
\* A caller buffer is the sequence of its bytes from offset 0 up to the last
\* one a call stored; Unstored marks a byte in between that no store reached.
NoBuffer == << >>

Unstored == -1

SIZE_T == 8
SIZEOF_DIRECTORY_ENTRY == 32
BYTE == 256

\* Storing bytes at offset pos: past the end (leaving the bytes in between
\* unstored), or over what is there.
store(buf, pos, bytes) ==
    IF pos = Len(buf) THEN buf \o bytes
    ELSE IF pos > Len(buf)
    THEN (buf \o [k \in 1..(pos - Len(buf)) |-> Unstored]) \o bytes
    ELSE (SubSeq(buf, 1, pos) \o bytes) \o SubSeq(buf, pos + Len(bytes) + 1, Len(buf))

\* The eight bytes of a size_t, least significant first.
word(v) ==
    <<v % BYTE, (v \div BYTE) % BYTE, (v \div (BYTE * BYTE)) % BYTE,
      (v \div (BYTE * BYTE * BYTE)) % BYTE, 0, 0, 0, 0>>

put_word(buf, pos, v) == store(buf, pos, word(v))

\* Storing the characters of s from pos on, then a NUL.
put_string(buf, pos, s) == store(buf, pos, Append(s, NUL))

RECURSIVE entries_total(_)
entries_total(files) ==
    IF files = << >> THEN 0
    ELSE SIZEOF_DIRECTORY_ENTRY + Len(Head(files)) + entries_total(Tail(files))

entry_offset_next(name) == Len(name) + 1 + 3 * 8

\* directory_entry: offset_next, type, length, then the name.  Each entry is
\* built as the bytes of its record and stored at buffer + position.
RECURSIVE entries_fill(_, _, _, _)
entries_fill(files, i, position, buf) ==
    IF i > Len(files) THEN buf
    ELSE LET name == files[i]
             offset_next == IF i + 1 <= Len(files) THEN entry_offset_next(name) ELSE 0
             e1 == put_word(NoBuffer, SIZE_T, 0)
             e2 == put_word(e1, 2 * SIZE_T, Len(name))
             e3 == put_word(e2, 0, offset_next)
             entry == put_string(e3, 3 * SIZE_T, name)
         IN entries_fill(files, i + 1, position + offset_next,
                         store(buf, position, entry))

FileNames == {<<97>>, <<98, 98>>}

LsResults == UNION {[1..n -> FileNames] : n \in 0..MaxFiles}

BufferSlack == {-1, 0, 1}

vfs_entries(fd, slack) ==
    /\ mount_point_list # << >>
    /\ IF ~has_handle(fd)
       THEN bad_fd("entries", fd)
       ELSE /\ UNCHANGED <<mount_point_list, handles>>
            /\ LET base_path == get_handle(fd)
                   i == get_fs(base_path)
                   fs == mount_point_list[i]
                   fs_path == get_fs_path(base_path, fs)
               IN \E r \in ls_results :
                     IF r > 0
                     THEN /\ slack = 0
                          /\ last' = [NoResult EXCEPT !.op = "entries", !.fd = fd,
                                          !.base_path = base_path,
                                          !.calls = <<Call(i, "ls", fs_path, r)>>,
                                          !.ret = -r]
                     ELSE \E files \in LsResults :
                          LET total_size == entries_total(files)
                              size == total_size + slack
                          IN /\ size >= 0
                             /\ last' = [NoResult EXCEPT !.op = "entries", !.fd = fd,
                                          !.base_path = base_path,
                                          !.calls = <<Call(i, "ls", fs_path, r)>>,
                                          !.files = files, !.size = size,
                                          !.buffer = IF size < total_size THEN NoBuffer
                                                     ELSE entries_fill(files, 1, 0, NoBuffer),
                                          !.ret = IF size < total_size
                                                  THEN -ERROR_BUFFER_SMALL
                                                  ELSE total_size]

\* A variant that counts only two of the three NUL terminators.
mount_entry_size_short(mp) ==
    4 * SIZE_T + 2 + Len(mp.device) + Len(mp.mount_point)
        + Len(partition_type_to_string(mp.fs_type))

mount_entry_size(mp) ==
    4 * SIZE_T + 3 + Len(mp.device) + Len(mp.mount_point)
        + Len(partition_type_to_string(mp.fs_type))

RECURSIVE mounts_total(_)
mounts_total(list) ==
    IF list = << >> THEN 0 ELSE mount_entry_size(Head(list)) + mounts_total(Tail(list))

\* mount_point: offset_next, length_mp, length_dev, length_type, then the
\* strings.  Each entry is built as the bytes of its record and stored at
\* buffer + position.
RECURSIVE mounts_fill(_, _, _, _)
mounts_fill(list, i, position, buf) ==
    IF i > Len(list) THEN buf
    ELSE LET mp == list[i]
             fs_type == partition_type_to_string(mp.fs_type)
             offset_next == IF i + 1 <= Len(list) THEN mount_entry_size(mp) ELSE 0
             e1 == put_word(NoBuffer, SIZE_T, Len(mp.mount_point))
             e2 == put_word(e1, 2 * SIZE_T, Len(mp.device))
             e3 == put_word(e2, 3 * SIZE_T, Len(fs_type))
             e4 == put_word(e3, 0, offset_next)
             name_buffer == 4 * SIZE_T
             e5 == put_string(e4, name_buffer, mp.mount_point)
             e6 == put_string(e5, name_buffer + Len(mp.mount_point) + 1, mp.device)
             entry == put_string(e6, name_buffer + Len(mp.mount_point) + 1
                                         + Len(mp.device) + 1, fs_type)
         IN mounts_fill(list, i + 1, position + offset_next,
                        store(buf, position, entry))

vfs_mounts(slack) ==
    /\ UNCHANGED <<mount_point_list, handles>>
    /\ LET total_size == mounts_total(mount_point_list)
           size == total_size + slack
       IN /\ size >= 0
          /\ last' = [NoResult EXCEPT !.op = "mounts", !.size = size,
                          !.buffer = IF size < total_size THEN NoBuffer
                                     ELSE mounts_fill(mount_point_list, 1, 0, NoBuffer),
                          !.ret = IF size < total_size THEN -ERROR_BUFFER_SMALL
                                  ELSE total_size]

(***************************************************************************)
(* The facade as a whole.  Calls are synchronous: the caller takes the     *)
(* result of a call before it makes the next one, and it may hand the      *)
(* descriptor an open returned straight to close.                          *)
(***************************************************************************)
Idle == last = NoResult

take_result ==
    /\ last # NoResult
    /\ last' = NoResult
    /\ UNCHANGED <<mount_point_list, handles>>

Next ==
    \/ Idle /\ vfs_init
    \/ Idle /\ \E type \in MountTypes, mp \in RawMountPoints :
                   vfs_mount(type, mp, Str_hda2)
    \/ Idle /\ \E type \in MountTypes, fds \in FdPairs :
                   vfs_mount_fd(type, fds[1], fds[2])
    \/ Idle /\ \E p \in PathArgs : vfs_statfs(p)
    \/ Idle /\ \E p \in PathArgs, flags \in OpenFlags : vfs_open(p, flags)
    \/ (Idle \/ last.op = "open") /\ \E fd \in FdArgs : vfs_close(fd)
    \/ Idle /\ \E p \in PathArgs : vfs_mkdir(p)
    \/ Idle /\ \E p \in PathArgs : vfs_rm(p)
    \/ Idle /\ \E fd \in FdArgs : vfs_stat(fd)
    \/ Idle /\ \E fd \in FdArgs : vfs_read(fd, MaxCount)
    \/ Idle /\ \E fd \in FdArgs : vfs_write(fd, MaxCount)
    \/ Idle /\ \E fd \in FdArgs : vfs_clear(fd, MaxCount)
    \/ Idle /\ \E fd \in FdArgs : vfs_truncate(fd)
    \/ Idle /\ \E p \in PathArgs : vfs_direct_read(p, MaxCount)
    \/ Idle /\ \E p \in PathArgs : vfs_direct_write(p, MaxCount)
    \/ Idle /\ \E p \in PathArgs : vfs_direct_read_string(p)
    \/ Idle /\ \E fd \in FdArgs, slack \in BufferSlack : vfs_entries(fd, slack)
    \/ Idle /\ \E slack \in BufferSlack : vfs_mounts(slack)
    \/ take_result

Spec == Init /\ [][Next]_vars

\* The calls that change the registry or the descriptor table, with the mount
\* listing.
NextMounts ==
    \/ Idle /\ vfs_init
    \/ Idle /\ \E type \in MountTypes, mp \in RawMountPoints :
                   vfs_mount(type, mp, Str_hda2)
    \/ Idle /\ \E type \in MountTypes, fds \in FdPairs :
                   vfs_mount_fd(type, fds[1], fds[2])
    \/ Idle /\ \E p \in PathArgs, flags \in OpenFlags : vfs_open(p, flags)
    \/ (Idle \/ last.op = "open") /\ \E fd \in FdArgs : vfs_close(fd)
    \/ Idle /\ \E slack \in BufferSlack : vfs_mounts(slack)
    \/ take_result

SpecMounts == Init /\ [][NextMounts]_vars

\* The calls that change what a path resolves to, what exists in a backend or
\* the descriptor table, with open and close.
NextOpen ==
    \/ Idle /\ vfs_init
    \/ Idle /\ \E type \in MountTypes, mp \in RawMountPoints :
                   vfs_mount(type, mp, Str_hda2)
    \/ Idle /\ \E type \in MountTypes, fds \in FdPairs :
                   vfs_mount_fd(type, fds[1], fds[2])
    \/ Idle /\ \E p \in PathArgs, flags \in OpenFlags : vfs_open(p, flags)
    \/ (Idle \/ last.op = "open") /\ \E fd \in FdArgs : vfs_close(fd)
    \/ Idle /\ \E p \in PathArgs : vfs_mkdir(p)
    \/ Idle /\ \E p \in PathArgs : vfs_rm(p)
    \/ take_result

SpecOpen == Init /\ [][NextOpen]_vars

(***************************************************************************)
(* Reading a listing back, as a user-space reader does: follow offset_next *)
(* from offset 0 until it is 0.  A reader that meets an offset the call    *)
(* never stored reads garbage.                                             *)
(***************************************************************************)
Garbage == <<Unstored>>

NoListing == [ok |-> FALSE, items |-> << >>]

at(buf, pos) == buf[pos + 1]

stored(buf, lo, hi) == hi < Len(buf) /\ \A k \in lo..hi : at(buf, k) # Unstored

BytesStored(buf) == Cardinality({k \in 1..Len(buf) : buf[k] # Unstored})

RECURSIVE read_word_from(_, _, _)
read_word_from(buf, pos, k) ==
    IF k = SIZE_T THEN 0 ELSE at(buf, pos + k) + BYTE * read_word_from(buf, pos, k + 1)

read_word(buf, pos) == read_word_from(buf, pos, 0)

\* The characters from pos up to the first NUL, or Garbage.
RECURSIVE read_string(_, _, _)
read_string(buf, pos, acc) ==
    IF ~stored(buf, pos, pos) THEN Garbage
    ELSE IF at(buf, pos) = NUL THEN acc
    ELSE read_string(buf, pos + 1, Append(acc, at(buf, pos)))

RECURSIVE ParseEntries(_, _, _)
ParseEntries(buf, pos, acc) ==
    IF ~stored(buf, pos, pos + 3 * SIZE_T - 1) THEN NoListing
    ELSE LET offset_next == read_word(buf, pos)
             name == read_string(buf, pos + 3 * SIZE_T, << >>)
             entry == [length |-> read_word(buf, pos + 2 * SIZE_T), name |-> name,
                       first |-> pos, end |-> pos + 3 * SIZE_T + Len(name) + 1]
         IN IF name = Garbage THEN NoListing
            ELSE IF offset_next = 0 THEN [ok |-> TRUE, items |-> Append(acc, entry)]
            ELSE ParseEntries(buf, pos + offset_next, Append(acc, entry))

RECURSIVE ParseMounts(_, _, _)
ParseMounts(buf, pos, acc) ==
    IF ~stored(buf, pos, pos + 4 * SIZE_T - 1) THEN NoListing
    ELSE LET offset_next == read_word(buf, pos)
             mp == read_string(buf, pos + 4 * SIZE_T, << >>)
             dev == IF mp = Garbage THEN Garbage
                    ELSE read_string(buf, pos + 4 * SIZE_T + Len(mp) + 1, << >>)
             type == IF mp = Garbage \/ dev = Garbage THEN Garbage
                     ELSE read_string(buf, pos + 4 * SIZE_T + Len(mp) + 1 + Len(dev) + 1,
                                      << >>)
         IN IF type = Garbage THEN NoListing
            ELSE LET entry == [mount_point |-> mp, device |-> dev, fs_type |-> type]
                 IN IF offset_next = 0 THEN [ok |-> TRUE, items |-> Append(acc, entry)]
                    ELSE ParseMounts(buf, pos + offset_next, Append(acc, entry))

\* A listing of zero bytes holds no record.
ReadEntries(buf) ==
    IF buf = NoBuffer THEN [ok |-> TRUE, items |-> << >>]
    ELSE ParseEntries(buf, 0, << >>)

ReadMounts(buf) ==
    IF buf = NoBuffer THEN [ok |-> TRUE, items |-> << >>]
    ELSE ParseMounts(buf, 0, << >>)

(***************************************************************************)
(* The properties of the facade.                                           *)
(***************************************************************************)
AbsPaths == {get_path(p) : p \in PathArgs}

IsPrefix(m, B) == Len(m) <= Len(B) /\ SubSeq(B, 1, Len(m)) = m

RootFirst == mount_point_list # << >> /\ mount_point_list[1].mp_vec = << >>

\* C1: whenever the registry holds the root mount (registered first, as
\* vfs::init does), the mount get_fs returns for an absolute path B has segments
\* that are a prefix of B, no mount whose segments are a prefix of B has longer
\* ones, and it is the root mount when no non-root mount is a prefix of B.
C1_LongestPrefix ==
    RootFirst =>
        \A B \in AbsPaths :
            LET m == mount_point_list[get_fs(B)]
            IN /\ IsPrefix(m.mp_vec, B)
               /\ \A k \in 1..Len(mount_point_list) :
                      IsPrefix(mount_point_list[k].mp_vec, B)
                          => Len(mount_point_list[k].mp_vec) <= Len(m.mp_vec)
               /\ (\A k \in 1..Len(mount_point_list) :
                       mount_point_list[k].mp_vec # << >>
                           => ~IsPrefix(mount_point_list[k].mp_vec, B))
                      => m.mp_vec = << >>

\* C2: whenever the registry holds the root mount (registered first, as
\* vfs::init does), every absolute path B is the segments of the mount get_fs
\* returns for it followed by the backend-local path get_fs_path returns.
C2_PathReassembles ==
    RootFirst =>
        \A B \in AbsPaths :
            LET m == mount_point_list[get_fs(B)]
            IN B = m.mp_vec \o get_fs_path(B, m)

NoDuplicateSegments ==
    \A i, j \in 1..Len(mount_point_list) :
        i # j => mount_point_list[i].mp_vec # mount_point_list[j].mp_vec

\* C3: after one vfs::init on the empty registry, a mount call in either form
\* leaves no two mounts with the same segments.
C3_NoDuplicateMounts ==
    (/\ last.op \in {"mount", "mount_fd"}
     /\ BootCount(mount_point_list) = 1
     /\ mount_point_list[1].mp_vec = << >>)
        => NoDuplicateSegments

\* C4: once vfs::init has run, the backend of every mount in the registry has
\* had init() invoked exactly once.
C4_InitExactlyOnce ==
    BootCount(mount_point_list) >= 1 =>
        \A i \in 1..Len(mount_point_list) :
            mount_point_list[i].file_system.inits = 1

DispatchOps ==
    {"statfs", "open", "mkdir", "rm", "stat", "read", "write", "clear", "truncate",
     "direct_read", "direct_write", "direct_read_string", "entries"}

\* C5: a dispatching facade operation whose last backend operation returned a
\* positive error code e returns -e.
C5_BackendErrorsNegated ==
    (/\ last.op \in DispatchOps
     /\ last.calls # << >>
     /\ last.calls[Len(last.calls)].result > 0)
        => last.ret = -(last.calls[Len(last.calls)].result)

PathOps ==
    {"open", "mkdir", "rm", "statfs", "direct_read", "direct_read_string",
     "direct_write"}

\* C6: a facade operation given the empty path string returns
\* -INVALID_FILE_PATH and invokes no backend operation.
C6_EmptyPathRejected ==
    (last.op \in PathOps /\ last.path = << >>)
        => /\ last.ret = -ERROR_INVALID_FILE_PATH
           /\ last.calls = << >>

\* C7: open with CREATE of a non-empty path whose backend-local path is not
\* empty asks the owning backend get_file for that path; on NOT_EXISTS it calls
\* touch there, and a successful touch makes open return a fresh descriptor
\* that refers to the absolute path, with the file present in the backend; any
\* other failure of get_file, or a failing touch, makes open return the negated
\* error and leaves the descriptor table as it was.
C7_OpenCreate ==
    (last.op = "open" /\ has_flag(last.flags, OPEN_CREATE) /\ last.path # << >>) =>
        LET B == get_path(last.path)
            i == get_fs(B)
            local == get_fs_path(B, mount_point_list[i])
            registered == /\ last.ret >= 0
                          /\ last.ret \notin DOMAIN last.table0
                          /\ handles = (last.ret :> B) @@ last.table0
        IN local # << >> =>
            /\ Len(last.calls) >= 1
            /\ last.calls[1] = Call(i, "get_file", local, last.calls[1].result)
            /\ IF last.calls[1].result = ERROR_NOT_EXISTS
               THEN /\ Len(last.calls) = 2
                    /\ last.calls[2] = Call(i, "touch", local, last.calls[2].result)
                    /\ IF last.calls[2].result = 0
                       THEN /\ registered
                            /\ 0 \in get_file_results(mount_point_list[i].file_system,
                                                      local)
                       ELSE /\ last.ret = -(last.calls[2].result)
                            /\ handles = last.table0
               ELSE /\ Len(last.calls) = 1
                    /\ IF last.calls[1].result > 0
                       THEN /\ last.ret = -(last.calls[1].result)
                            /\ handles = last.table0
                       ELSE registered

C7_Witness ==
    /\ last.op = "open"
    /\ has_flag(last.flags, OPEN_CREATE)
    /\ Len(last.calls) = 2
    /\ last.calls[2].op = "touch"
    /\ last.calls[2].result = 0
    /\ last.ret >= 0

NoOverlap(es) == \A k \in 1..(Len(es) - 1) : es[k].end <= es[k + 1].first

\* C8: a successful entries stores exactly as many bytes as it returns, and the
\* listing read back from offset 0 has one entry per file, in ls order, each
\* with its name and the length of its name, no entry running into the next.
C8_EntriesListing ==
    (last.op = "entries" /\ last.ret >= 0) =>
        /\ BytesStored(last.buffer) = last.ret
        /\ LET es == ReadEntries(last.buffer).items
           IN /\ ReadEntries(last.buffer).ok
              /\ Len(es) = Len(last.files)
              /\ \A k \in 1..Len(es) :
                     /\ es[k].name = last.files[k]
                     /\ es[k].length = Len(last.files[k])
              /\ NoOverlap(es)

Triples(list) ==
    [i \in 1..Len(list) |->
        [mount_point |-> list[i].mount_point, device |-> list[i].device,
         fs_type |-> partition_type_to_string(list[i].fs_type)]]

BootListing ==
    <<[mount_point |-> Str_root, device |-> Str_hda1,
       fs_type |-> <<70, 65, 84, 51, 50>>],
      [mount_point |-> Str_sys, device |-> Str_none,
       fs_type |-> <<115, 121, 115, 102, 115>>],
      [mount_point |-> Str_dev, device |-> Str_none,
       fs_type |-> <<100, 101, 118, 102, 115>>],
      [mount_point |-> Str_proc, device |-> Str_none,
       fs_type |-> <<112, 114, 111, 99, 102, 115>>]>>

\* C9: a successful mounts stores exactly the bytes 0 .. ret-1, the listing
\* read back from offset 0 is the registry's (mount_point, device, type string)
\* triples in registration order, and after one vfs::init on the empty registry
\* it is the four boot mounts.
C9_MountsRoundTrip ==
    (last.op = "mounts" /\ last.ret >= 0) =>
        /\ Len(last.buffer) = last.ret
        /\ BytesStored(last.buffer) = last.ret
        /\ LET listing == ReadMounts(last.buffer)
           IN /\ listing.ok
              /\ listing.items = Triples(mount_point_list)
              /\ (Len(mount_point_list) = 4 /\ BootCount(mount_point_list) = 1
                     => listing.items = BootListing)

C9_Witness ==
    /\ last.op = "mounts"
    /\ last.ret > 0
    /\ Len(mount_point_list) > 4
    /\ ReadMounts(last.buffer).items = Triples(mount_point_list)

====
